---- MODULE Spec2Model ----
(***************************************************************************)
(* Matching core of the lending/borrowing order book:                      *)
(*   types/rational.rs   exact Rational over a fixed-width signed integer  *)
(*   types/interval.rs   Interval<T>, ordered by (min, max)                *)
(*   types/order.rs      Order and the dual-indexed OrderBook              *)
(*   handlers/matching.rs match_lend / match_borrow                        *)
(***************************************************************************)
EXTENDS Integers, Sequences, FiniteSets

VARIABLES
    orders_by_vtl,   \* OrderBook.orders_by_vtl: heapless Vec<Order, MAX_ORDERS>
    orders_by_id,    \* OrderBook.orders_by_id: FnvIndexMap, as its entry array <<key, value>>
    aborted,         \* TRUE once a panic has unwound the caller
    last,            \* the last call on the book: [op, arg, ret]
    latest,          \* history: id -> the order of the last add_order with that id not
                     \* followed by remove_order of that id, or NoOrder
    overflow_checks, \* the build: TRUE = overflow checks on (debug), FALSE = wrapping (release)
    call,            \* the call of a pure function of rational.rs: [fn, ...]
    out              \* what that call produced, NoOut before it is made

vars == <<orders_by_vtl, orders_by_id, aborted, last, latest,
          overflow_checks, call, out>>

bookVars == <<orders_by_vtl, orders_by_id, aborted, last, latest>>

-----------------------------------------------------------------------------
(* Bounds of the model.                                                    *)

\* Width in bits of the signed integer standing for i64.
IntBits == 5
\* The driver grows a new book up to MaxAdds entries.
MaxAdds == 2
\* Longest string handed to from_decimal_str.
MaxStrLen == 4

-----------------------------------------------------------------------------
(* Program constants (types/order.rs).                                     *)

MAX_ORDERS == 32
MAX_KEYS == 16

-----------------------------------------------------------------------------
(* Fixed-width signed integer arithmetic (i64 scaled to IntBits bits).     *)

RECURSIVE Pow2(_)
Pow2(n) == IF n = 0 THEN 1 ELSE 2 * Pow2(n - 1)

INT_MIN == -Pow2(IntBits - 1)
INT_MAX == Pow2(IntBits - 1) - 1
IntRange == INT_MIN..INT_MAX

InRange(x) == INT_MIN <= x /\ x <= INT_MAX

\* Two's complement wrap-around of a mathematical integer.
Wrap(x) == ((x - INT_MIN) % Pow2(IntBits)) + INT_MIN

Abs(x) == IF x < 0 THEN -x ELSE x

\* Rust's `/` and `%` on integers truncate toward zero.
Quot(a, b) ==
    LET q == Abs(a) \div Abs(b)
    IN  IF (a < 0) = (b < 0) THEN q ELSE -q

Rem(a, b) ==
    LET r == Abs(a) % Abs(b)
    IN  IF a < 0 THEN -r ELSE r

\* A machine operation yields [ok |-> TRUE, v |-> value] or [ok |-> FALSE] (a panic).
Val(v) == [ok |-> TRUE, v |-> v]
Panic == [ok |-> FALSE]

\* `a * b`, `a - b`, `x.abs()`: panic with overflow checks on, wrap without.
ArithResult(x, checks) ==
    IF InRange(x) THEN Val(x)
    ELSE IF checks THEN Panic ELSE Val(Wrap(x))

\* `a / b` and `a % b` panic on a zero divisor and on INT_MIN by -1 in every build.
DivResult(a, b) ==
    IF b = 0 \/ (a = INT_MIN /\ b = -1) THEN Panic ELSE Val(Quot(a, b))

RemResult(a, b) ==
    IF b = 0 \/ (a = INT_MIN /\ b = -1) THEN Panic ELSE Val(Rem(a, b))

\* i64::checked_mul: None on overflow.
NoneVal == [some |-> FALSE]
Some(v) == [some |-> TRUE, v |-> v]
checked_mul(a, b) == IF InRange(a * b) THEN Some(a * b) ELSE NoneVal

-----------------------------------------------------------------------------
(* types/rational.rs                                                       *)

\* fn gcd(mut a, mut b): Euclid's loop, then a.abs().
RECURSIVE gcd_loop(_, _)
gcd_loop(a, b) ==
    IF b = 0 THEN Val(a)
    ELSE LET r == RemResult(a, b)
         IN  IF ~r.ok THEN Panic ELSE gcd_loop(b, r.v)

gcd(a, b, checks) ==
    LET l == gcd_loop(a, b)
    IN  IF ~l.ok THEN Panic ELSE ArithResult(Abs(l.v), checks)

Rat(n, d) == [num |-> n, den |-> d]
Ok(v) == [tag |-> "Ok", v |-> v]
Err(msg) == [tag |-> "Err", msg |-> msg]
Panicked == [tag |-> "Panic"]

\* Rational::new(num, den)
Rational_new(num, den, checks) ==
    IF den = 0 THEN Err("Denominator cannot be zero")
    ELSE
      LET sign == IF den < 0 THEN -1 ELSE 1
          g == gcd(num, den, checks)
      IN  IF ~g.ok THEN Panicked
          ELSE
            LET q == DivResult(num, g.v)
                n == IF q.ok THEN ArithResult(sign * q.v, checks) ELSE Panic
                a == ArithResult(Abs(den), checks)
                d == IF a.ok THEN DivResult(a.v, g.v) ELSE Panic
            IN  IF n.ok /\ d.ok THEN Ok(Rat(n.v, d.v)) ELSE Panicked

\* PartialOrd for Rational: None when a cross product overflows.
Ordering(x, y) == IF x < y THEN "Less" ELSE IF x = y THEN "Equal" ELSE "Greater"

Rational_partial_cmp(a, b) ==
    LET l == checked_mul(a.num, b.den)
        r == checked_mul(b.num, a.den)
    IN  IF ~l.some \/ ~r.some THEN "None" ELSE Ordering(l.v, r.v)

\* Ord for Rational: partial_cmp(..).expect(..), so "Panic" on overflow.
Rational_cmp(a, b) ==
    LET c == Rational_partial_cmp(a, b)
    IN  IF c = "None" THEN "Panic" ELSE c

\* `a <= b` on Rationals (PartialOrd::le): false when partial_cmp is None.
Rational_le(a, b) == Rational_partial_cmp(a, b) \in {"Less", "Equal"}

\* `a > b` on Rationals (PartialOrd::gt).
Rational_gt(a, b) == Rational_partial_cmp(a, b) = "Greater"

\* Ord::max / Ord::min through Ord::cmp: self only when strictly on its side.
Rational_max(a, b) ==
    LET c == Rational_cmp(a, b)
    IN  IF c = "Panic" THEN Panic ELSE Val(IF c = "Greater" THEN a ELSE b)

Rational_min(a, b) ==
    LET c == Rational_cmp(a, b)
    IN  IF c = "Panic" THEN Panic ELSE Val(IF c = "Greater" THEN b ELSE a)

\* #[derive(PartialEq, Eq)] on Rational: field by field.
Rational_eq(a, b) == a.num = b.num /\ a.den = b.den

\* Strings are sequences of characters.  char::to_digit(10):
Digits == {"0", "1", "2", "3", "4", "5", "6", "7", "8", "9"}

DigitVal(c) ==
    CASE c = "0" -> 0 [] c = "1" -> 1 [] c = "2" -> 2 [] c = "3" -> 3
      [] c = "4" -> 4 [] c = "5" -> 5 [] c = "6" -> 6 [] c = "7" -> 7
      [] c = "8" -> 8 [] c = "9" -> 9

\* str::trim: strips leading and trailing whitespace.
RECURSIVE trim_start(_)
trim_start(s) ==
    IF s # <<>> /\ Head(s) = " " THEN trim_start(Tail(s)) ELSE s

RECURSIVE trim_end(_)
trim_end(s) ==
    IF s # <<>> /\ s[Len(s)] = " " THEN trim_end(SubSeq(s, 1, Len(s) - 1)) ELSE s

trim(s) == trim_end(trim_start(s))

\* str::find(c): the byte offset of the first occurrence, or None.
find(s, c) ==
    LET hits == {i \in 0..(Len(s) - 1) : s[i + 1] = c}
    IN  IF hits = {} THEN NoneVal
        ELSE Some(CHOOSE i \in hits : \A j \in hits : i <= j)

\* str::parse::<i64>: an optional sign, then one or more decimal digits; the value
\* is accumulated upwards (downwards after '-') with checked arithmetic.  Any error
\* is None here, the callers discard its kind.
RECURSIVE parse_digits(_, _, _)
parse_digits(digits, acc, positive) ==
    IF digits = <<>> THEN Some(acc)
    ELSE IF Head(digits) \notin Digits THEN NoneVal
    ELSE
      LET m == checked_mul(acc, 10)
          d == DigitVal(Head(digits))
          n == IF positive THEN m.v + d ELSE m.v - d
      IN  IF ~m.some \/ ~InRange(n) THEN NoneVal
          ELSE parse_digits(Tail(digits), n, positive)

parse_i64(s) ==
    IF s = <<>> THEN NoneVal
    ELSE IF s = <<"+">> \/ s = <<"-">> THEN NoneVal
    ELSE IF Head(s) = "-" THEN parse_digits(Tail(s), 0, FALSE)
    ELSE IF Head(s) = "+" THEN parse_digits(Tail(s), 0, TRUE)
    ELSE parse_digits(s, 0, TRUE)

\* 10i64.pow(n): repeated multiplication, which overflows exactly when 10^n does.
RECURSIVE Pow10(_)
Pow10(n) == IF n = 0 THEN 1 ELSE 10 * Pow10(n - 1)

pow10(n, checks) == ArithResult(Pow10(n), checks)

\* Rational::from_decimal_str
from_decimal_str(str, checks) ==
    LET s == trim(str)
        dot == find(s, ".")
    IN  IF dot.some
        THEN
          LET int_part == SubSeq(s, 1, dot.v)
              frac == SubSeq(s, dot.v + 2, Len(s))
              base == pow10(Len(frac), checks)
              int_val == parse_i64(int_part)
              frac_val == parse_i64(frac)
          IN  IF ~base.ok THEN Panicked
              ELSE IF ~int_val.some THEN Err("Invalid integer part")
              ELSE IF ~frac_val.some THEN Err("Invalid fractional part")
              ELSE
                LET signed == IF int_val.v < 0 THEN -1 ELSE 1
                    abs == ArithResult(Abs(int_val.v), checks)
                    mul == IF abs.ok THEN ArithResult(abs.v * base.v, checks)
                           ELSE Panic
                    numerator == IF mul.ok THEN ArithResult(mul.v + frac_val.v, checks)
                                 ELSE Panic
                    num == IF numerator.ok
                           THEN ArithResult(signed * numerator.v, checks)
                           ELSE Panic
                IN  IF ~num.ok THEN Panicked
                    ELSE Rational_new(num.v, base.v, checks)
        ELSE
          LET i == parse_i64(s)
          IN  IF ~i.some THEN Err("Invalid integer")
              ELSE Rational_new(i.v, 1, checks)

\* Rational::checked_sub: both cross products and the denominator product are
\* checked_mul; the difference `ad - cb` is a plain subtraction.
checked_sub(a, rhs, checks) ==
    LET ad == checked_mul(a.num, rhs.den)
        cb == checked_mul(rhs.num, a.den)
    IN  IF ~ad.some \/ ~cb.some THEN Err("Overflow computing numerator")
        ELSE
          LET num == ArithResult(ad.v - cb.v, checks)
              den == checked_mul(a.den, rhs.den)
          IN  IF ~num.ok THEN Panicked
              ELSE IF ~den.some THEN Err("Overflow computing denominator")
              ELSE Rational_new(num.v, den.v, checks)

-----------------------------------------------------------------------------
(* types/interval.rs                                                       *)

Interval(min, max) == [min |-> min, max |-> max]

\* Interval::new(min, max): `min <= max` is PartialOrd::le of T.
Interval_new(min, max) ==
    IF Rational_le(min, max) THEN Ok(Interval(min, max))
    ELSE Err("min must be <= max")

\* Ord for Interval: min.cmp(other.min).then_with(|| max.cmp(other.max)).
Interval_cmp(a, b) ==
    LET c == Rational_cmp(a.min, b.min)
    IN  IF c # "Equal" THEN c ELSE Rational_cmp(a.max, b.max)

-----------------------------------------------------------------------------
(* types/order.rs: Order                                                   *)

OrderStatus == {"OPEN", "PARTIALLY_FILLED", "FILLED", "EXPIRED"}

\* Order::new: status OPEN, remaining_amount = amount.  Identifiers are numbered;
\* their order is the order of the identifier strings.
Order_new(order_id, order_type, asset, collateral, amount, vtl_range) ==
    [order_id |-> order_id, order_type |-> order_type, status |-> "OPEN",
     asset |-> asset, collateral |-> collateral, amount |-> amount,
     remaining_amount |-> amount, vtl_range |-> vtl_range]

\* The caller's write to the public field `status`.
WithStatus(o, s) == [o EXCEPT !.status = s]

-----------------------------------------------------------------------------
(* heapless containers as used by OrderBook                                *)

\* Mutant of Vec_insert: the new element overwrites the one at idx instead of
\* shifting the tail.
Vec_insert_overwrite(vec, idx, v) ==
    IF idx < Len(vec) THEN [vec EXCEPT ![idx + 1] = v] ELSE Append(vec, v)


\* heapless::Vec::insert(idx, v): Err (dropped by .ok()) when the Vec is full.
Vec_insert(vec, idx, v) ==
    IF Len(vec) = MAX_ORDERS THEN vec
    ELSE SubSeq(vec, 1, idx) \o <<v>> \o SubSeq(vec, idx + 1, Len(vec))

\* Position (1-based) of key in the entry array, 0 when absent.
Map_find(map, key) ==
    IF \E i \in 1..Len(map) : map[i][1] = key
    THEN CHOOSE i \in 1..Len(map) : map[i][1] = key
    ELSE 0

\* Mutant of Map_insert: a present key keeps its old value.
Map_insert_keep_old(map, key, v) ==
    IF \E i \in 1..Len(map) : map[i][1] = key THEN map
    ELSE IF Len(map) = MAX_KEYS THEN map
    ELSE Append(map, <<key, v>>)

\* FnvIndexMap::insert(key, v): replaces the value of a present key in place;
\* otherwise appends, or returns Err (dropped by .ok()) when the map is full.
Map_insert(map, key, v) ==
    LET i == Map_find(map, key)
    IN  IF i # 0 THEN [map EXCEPT ![i] = <<key, v>>]
        ELSE IF Len(map) = MAX_KEYS THEN map
        ELSE Append(map, <<key, v>>)

\* FnvIndexMap::get(key)
Map_get(map, key) ==
    LET i == Map_find(map, key)
    IN  IF i = 0 THEN NoneVal ELSE Some(map[i][2])

\* Mutant of Map_remove: drops the last entry without moving it into the freed slot.
Map_remove_pop(map, key) ==
    IF \E i \in 1..Len(map) : map[i][1] = key
    THEN SubSeq(map, 1, Len(map) - 1)
    ELSE map

\* FnvIndexMap::remove(key) is swap_remove: the last entry takes the freed slot.
Map_remove(map, key) ==
    LET i == Map_find(map, key)
        n == Len(map)
    IN  IF i = 0 THEN map
        ELSE IF i = n THEN SubSeq(map, 1, n - 1)
        ELSE SubSeq(map, 1, i - 1) \o <<map[n]>> \o SubSeq(map, i + 1, n - 1)

\* slice::binary_search_by over the comparator's answers cmps[i] = f(slice[i]).
\* 0-based bounds; yields "Panic" when a probed comparison panics.
RECURSIVE bsearch_loop(_, _, _)
bsearch_loop(cmps, left, right) ==
    IF left >= right THEN [found |-> FALSE, idx |-> left]
    ELSE
      LET mid == left + ((right - left) \div 2)
          c == cmps[mid + 1]
      IN  IF c = "Panic" THEN [panic |-> TRUE]
          ELSE IF c = "Equal" THEN [found |-> TRUE, idx |-> mid]
          ELSE IF c = "Less" THEN bsearch_loop(cmps, mid + 1, right)
          ELSE bsearch_loop(cmps, left, mid)

\* The set of indices binary_search_by(..).unwrap_or_else(|e| e) may yield: with
\* several matches any one of them may be returned; {} stands for a panic.
binary_search_by(cmps) ==
    LET r == bsearch_loop(cmps, 0, Len(cmps))
    IN  IF "panic" \in DOMAIN r THEN {}
        ELSE IF r.found THEN {i \in 0..(Len(cmps) - 1) : cmps[i + 1] = "Equal"}
        ELSE {r.idx}

-----------------------------------------------------------------------------
(* types/order.rs: OrderBook                                               *)

\* Mutant of compare: no order_id tie-break.
compare_without_tie_break(o1, o2) == Interval_cmp(o1.vtl_range, o2.vtl_range)

\* The comparator add_order hands to insert_sorted: vtl_range, then order_id.
compare(o1, o2) ==
    LET vtl_cmp == Interval_cmp(o1.vtl_range, o2.vtl_range)
    IN  IF vtl_cmp # "Equal" THEN vtl_cmp ELSE Ordering(o1.order_id, o2.order_id)

\* Mutant of insert_sorted: the order is pushed at the end.
insert_sorted_push(vec, order) == {Vec_insert(vec, Len(vec), order)}

\* OrderBook::insert_sorted: the Vecs it may leave ({} when compare panics).
insert_sorted(vec, order) ==
    LET cmps == [i \in 1..Len(vec) |-> compare(vec[i], order)]
    IN  {Vec_insert(vec, idx, order) : idx \in binary_search_by(cmps)}

\* Mutant of book_full: the guard tests the identifier index only.
book_full_map_only(vec, map) == Len(map) = MAX_KEYS

\* Mutant of book_full: the guard tests the capacity of the Vec.
book_full_at_vec_capacity(vec, map) == Len(vec) = MAX_ORDERS \/ Len(map) = MAX_ORDERS

\* The guard of add_order: panic!("order book full").
book_full(vec, map) == Len(vec) = MAX_KEYS \/ Len(map) = MAX_KEYS

\* OrderBook::get_order_by_id
get_order_by_id(map, id) == Map_get(map, id)

\* Mutant of add_order_results: the order goes into the identifier index only.
add_order_results_map_only(vec, map, order) ==
    IF book_full(vec, map) THEN {}
    ELSE {[vtl |-> vec, id |-> Map_insert(map, order.order_id, order)]}

\* OrderBook::add_order on (orders_by_vtl, orders_by_id): the books it may leave;
\* {} stands for a panic ("order book full", or a comparison that overflows).
add_order_results(vec, map, order) ==
    IF book_full(vec, map) THEN {}
    ELSE {[vtl |-> v, id |-> Map_insert(map, order.order_id, order)] :
            v \in insert_sorted(vec, order)}

\* OrderBook::remove_order: the identifier index it leaves, and what it returns.
remove_order_map(map, id) == Map_remove(map, id)
remove_order_ret(map, id) == Map_get(map, id)

\* OrderBook::iter_orders_by_vtl / iter_orders_by_id: the orders yielded, in order.
iter_orders_by_vtl(vec) == vec
iter_orders_by_id(map) == [i \in 1..Len(map) |-> map[i][2]]

-----------------------------------------------------------------------------
(* handlers/matching.rs                                                    *)

NoMatch == [tag |-> "None"]
Match(at, o) == [tag |-> "Some", at |-> at, order |-> o]

\* Mutant of lend_partition: the probe test is `<` instead of `<=`.
RECURSIVE lend_partition_strict(_, _, _, _)
lend_partition_strict(vec, lend_min, lo, hi) ==
    IF lo >= hi THEN lo
    ELSE
      LET mid == (lo + hi) \div 2
          probe == vec[mid + 1]
      IN  IF Rational_partial_cmp(probe.vtl_range.min, lend_min) = "Less"
          THEN lend_partition_strict(vec, lend_min, mid + 1, hi)
          ELSE lend_partition_strict(vec, lend_min, lo, mid)

\* The hand-written partition search of match_lend (0-based lo, hi).
RECURSIVE lend_partition(_, _, _, _)
lend_partition(vec, lend_min, lo, hi) ==
    IF lo >= hi THEN lo
    ELSE
      LET mid == (lo + hi) \div 2
          probe == vec[mid + 1]
      IN  IF Rational_le(probe.vtl_range.min, lend_min)
          THEN lend_partition(vec, lend_min, mid + 1, hi)
          ELSE lend_partition(vec, lend_min, lo, mid)

\* The overlap test of both functions: lower = max of the mins, upper = min of the
\* maxes; "Panic" when Ord::max / Ord::min panics.
overlap_bounds(o, cand) ==
    LET lower == Rational_max(o.vtl_range.min, cand.vtl_range.min)
        upper == Rational_min(o.vtl_range.max, cand.vtl_range.max)
    IN  IF lower.ok /\ upper.ok THEN Val([lower |-> lower.v, upper |-> upper.v])
        ELSE Panic

\* Mutant of lend_scan: no status test.
RECURSIVE lend_scan_any_status(_, _, _)
lend_scan_any_status(vec, lend_order, i) ==
    IF i >= Len(vec) THEN NoMatch
    ELSE
      LET o == vec[i + 1]
          b == overlap_bounds(o, lend_order)
      IN  IF ~b.ok THEN Panicked
          ELSE IF Rational_le(b.v.lower, b.v.upper) THEN Match(i, o)
          ELSE lend_scan_any_status(vec, lend_order, i + 1)

\* `for o in &orders_by_vtl[idx..]` of match_lend, from 0-based position i.
RECURSIVE lend_scan(_, _, _)
lend_scan(vec, lend_order, i) ==
    IF i >= Len(vec) THEN NoMatch
    ELSE
      LET o == vec[i + 1]
      IN  IF o.status # "OPEN" THEN lend_scan(vec, lend_order, i + 1)
          ELSE
            LET b == overlap_bounds(o, lend_order)
            IN  IF ~b.ok THEN Panicked
                ELSE IF Rational_le(b.v.lower, b.v.upper) THEN Match(i, o)
                ELSE lend_scan(vec, lend_order, i + 1)

match_lend(vec, lend_order) ==
    LET idx == lend_partition(vec, lend_order.vtl_range.min, 0, Len(vec))
    IN  lend_scan(vec, lend_order, idx)

\* Mutant of borrow_partition: the comparator answers Less for min < borrow_min only.
borrow_partition_strict(vec, borrow_min) ==
    LET cmps == [i \in 1..Len(vec) |->
                   IF Rational_partial_cmp(vec[i].vtl_range.min, borrow_min) = "Less"
                   THEN "Less" ELSE "Greater"]
    IN  CHOOSE i \in binary_search_by(cmps) : TRUE

\* The insertion point of match_borrow: binary_search_by with a comparator that
\* answers Less for min <= borrow_min and Greater otherwise.
borrow_partition(vec, borrow_min) ==
    LET cmps == [i \in 1..Len(vec) |->
                   IF Rational_le(vec[i].vtl_range.min, borrow_min)
                   THEN "Less" ELSE "Greater"]
    IN  CHOOSE i \in binary_search_by(cmps) : TRUE

match_borrow(vec, borrow_order) ==
    LET idx == borrow_partition(vec, borrow_order.vtl_range.min)
    IN  IF idx = 0 THEN NoMatch
        ELSE
          LET o == vec[idx]
          IN  IF o.status # "OPEN" THEN NoMatch
              ELSE
                LET b == overlap_bounds(o, borrow_order)
                IN  IF ~b.ok THEN Panicked
                    ELSE IF Rational_gt(b.v.lower, b.v.upper) THEN NoMatch
                    ELSE Match(idx - 1, o)

-----------------------------------------------------------------------------
(* The orders the driver submits.                                          *)

\* A Rational as the caller obtains it, through Rational::new.
R(n, d) == Rational_new(n, d, TRUE).v
\* An Interval<Rational> as the caller obtains it, through Interval::new.
Range(lo, hi) == Interval_new(lo, hi).v

\* VTL ranges of resting orders: [1/3,1/2], [1,3/2], [1,2], [3/2,5/2].
BookRanges ==
    << Range(R(2, 6), R(1, 2)), Range(R(1, 1), R(3, 2)),
       Range(R(2, 2), R(4, 2)), Range(R(3, 2), R(5, 2)) >>

\* VTL ranges of incoming orders: [0,1/3], [2/3,1], [1,3/2], [2,5/2].
CandRanges ==
    { Range(R(0, 3), R(1, 3)), Range(R(2, 3), R(1, 1)),
      Range(R(1, 1), R(3, 2)), Range(R(2, 1), R(5, 2)) }

StatusSeq == <<"OPEN", "PARTIALLY_FILLED", "FILLED", "EXPIRED">>
\* Statuses the driver gives the orders it submits; resting orders carry all four.
UserStatuses == {"OPEN", "EXPIRED"}

UserIds == {1, 2}
FillerIds == {10 + i : i \in 1..MAX_KEYS}
\* Identifiers looked up and removed: the user's and one resting order's.
ProbeIds == UserIds \cup {11}
AllIds == ProbeIds \cup FillerIds

\* Orders submitted by the driver: built by Order::new, status then set by the caller.
UserOrders ==
    { WithStatus(Order_new(id, "BORROW", "DOT", 0, 100, BookRanges[r]), s) :
        id \in UserIds, r \in 1..Len(BookRanges), s \in UserStatuses }

\* The i-th resting order of a book that is already in use.
Filler(i) ==
    WithStatus(Order_new(10 + i, "BORROW", "DOT", 0, 100, BookRanges[(i % 4) + 1]),
               StatusSeq[4 - ((i \div 4) % 4)])

\* Incoming orders handed to match_lend / match_borrow.
LendCandidates == { Order_new(9, "LEND", "DOT", 0, 100, r) : r \in CandRanges }
BorrowCandidates == { Order_new(9, "BORROW", "DOT", 0, 100, r) : r \in CandRanges }

\* OrderBook::new()
EmptyBook == [vtl |-> <<>>, id |-> <<>>]

\* The book after add_order(Filler(1)), ..., add_order(Filler(n)) on a new book.
RECURSIVE Prefilled(_)
Prefilled(n) ==
    IF n = 0 THEN EmptyBook
    ELSE LET b == Prefilled(n - 1)
         IN  CHOOSE nb \in add_order_results(b.vtl, b.id, Filler(n)) : TRUE

NoCall == [fn |-> "none"]
NoOut == [tag |-> "none"]

-----------------------------------------------------------------------------
(* The order book as a state machine.                                      *)

\* The book starts new, or as a book in use that is one order short of capacity.
Init ==
    /\ \E n0 \in {0, MAX_KEYS - 1} :
         /\ orders_by_vtl = Prefilled(n0).vtl
         /\ orders_by_id = Prefilled(n0).id
         /\ latest = [id \in AllIds |->
                        IF id - 10 \in 1..n0 THEN Some(Filler(id - 10)) ELSE NoneVal]
    /\ aborted = FALSE
    /\ last = [op |-> "new"]
    /\ overflow_checks = TRUE
    /\ call = NoCall
    /\ out = NoOut

\* The driver grows a new book to MaxAdds entries, and a book in use to capacity.
AddAllowed ==
    \/ Len(orders_by_vtl) < MaxAdds
    \/ Len(orders_by_vtl) >= MAX_KEYS - 1

add_order(order) ==
    /\ ~aborted
    /\ AddAllowed
    /\ LET res == add_order_results(orders_by_vtl, orders_by_id, order)
       IN  IF res = {}
           THEN /\ aborted' = TRUE
                /\ last' = [op |-> "add_order", order |-> order, ret |-> "panic"]
                /\ UNCHANGED <<orders_by_vtl, orders_by_id, latest>>
           ELSE /\ \E b \in res :
                     /\ orders_by_vtl' = b.vtl
                     /\ orders_by_id' = b.id
                /\ last' = [op |-> "add_order", order |-> order, ret |-> "ok"]
                /\ latest' = [latest EXCEPT ![order.order_id] = Some(order)]
                /\ UNCHANGED aborted
    /\ UNCHANGED <<overflow_checks, call, out>>

remove_order(id) ==
    /\ ~aborted
    /\ orders_by_id' = remove_order_map(orders_by_id, id)
    /\ last' = [op |-> "remove_order", id |-> id,
                ret |-> remove_order_ret(orders_by_id, id)]
    /\ latest' = [latest EXCEPT ![id] = NoneVal]
    /\ UNCHANGED <<orders_by_vtl, aborted, overflow_checks, call, out>>

GetOrderById(id) ==
    /\ ~aborted
    /\ last' = [op |-> "get_order_by_id", id |-> id,
                ret |-> get_order_by_id(orders_by_id, id)]
    /\ UNCHANGED <<orders_by_vtl, orders_by_id, aborted, latest,
                   overflow_checks, call, out>>

MatchLend(lend_order) ==
    /\ ~aborted
    /\ LET r == match_lend(orders_by_vtl, lend_order)
       IN  /\ last' = [op |-> "match_lend", order |-> lend_order, ret |-> r]
           /\ aborted' = (r.tag = "Panic")
    /\ UNCHANGED <<orders_by_vtl, orders_by_id, latest, overflow_checks, call, out>>

MatchBorrow(borrow_order) ==
    /\ ~aborted
    /\ LET r == match_borrow(orders_by_vtl, borrow_order)
       IN  /\ last' = [op |-> "match_borrow", order |-> borrow_order, ret |-> r]
           /\ aborted' = (r.tag = "Panic")
    /\ UNCHANGED <<orders_by_vtl, orders_by_id, latest, overflow_checks, call, out>>

\* iter_orders_by_vtl() / iter_orders_by_id(), run to the end.
IterOrders(which) ==
    /\ ~aborted
    /\ last' = [op |-> which,
                ret |-> IF which = "iter_orders_by_vtl"
                        THEN iter_orders_by_vtl(orders_by_vtl)
                        ELSE iter_orders_by_id(orders_by_id)]
    /\ UNCHANGED <<orders_by_vtl, orders_by_id, aborted, latest,
                   overflow_checks, call, out>>

AddOrder == \E order \in UserOrders : add_order(order)
RemoveOrder == \E id \in ProbeIds : remove_order(id)
Lookup == \E id \in ProbeIds : GetOrderById(id)
Lend == \E o \in LendCandidates : MatchLend(o)
Borrow == \E o \in BorrowCandidates : MatchBorrow(o)
Iterate == \E which \in {"iter_orders_by_vtl", "iter_orders_by_id"} : IterOrders(which)

Next == AddOrder \/ RemoveOrder \/ Lookup \/ Lend \/ Borrow \/ Iterate

Spec == Init /\ [][Next]_vars

-----------------------------------------------------------------------------
(* The pure functions of rational.rs, applied to every input of the width.  *)

\* Rational::new(n, d), for every n and d.
NewCalls == {[fn |-> "new", num |-> n, den |-> d] : n \in IntRange, d \in IntRange}

\* Rational::new(n, d) beside Rational::new(k*n, k*d): k # 0, products representable.
NewScaledCalls ==
    {c \in [fn : {"new_scaled"}, num : IntRange, den : IntRange, k : IntRange \ {0}] :
        InRange(c.k * c.num) /\ InRange(c.k * c.den)}

\* Integers Rationals are built from: the ends of the width and small values.
EdgeInts ==
    {INT_MIN, INT_MIN + 1, -3, -2, -1, 0, 1, 2, 3, Pow2(IntBits - 2),
     INT_MAX - 1, INT_MAX}

\* The Rationals a caller can hold in the given build: what Rational::new returns.
RationalValues(checks) ==
    LET args == {p \in EdgeInts \X EdgeInts :
                    Rational_new(p[1], p[2], checks).tag = "Ok"}
    IN  {Rational_new(p[1], p[2], checks).v : p \in args}

\* a.partial_cmp(b), a.cmp(b) and a == b, for Rationals a and b.
CmpCalls(checks) ==
    {[fn |-> "cmp", a |-> a, b |-> b] :
        a \in RationalValues(checks), b \in RationalValues(checks)}

\* Rational::from_decimal_str(s): the strings of at most MaxStrLen characters.
Chars == {" ", "+", "-", ".", "0", "1", "5"}

RECURSIVE StringsOfLen(_)
StringsOfLen(n) ==
    IF n = 0 THEN {<<>>}
    ELSE {Append(s, c) : s \in StringsOfLen(n - 1), c \in Chars}

Strings == UNION {StringsOfLen(n) : n \in 1..MaxStrLen}

ParseCalls == {[fn |-> "from_decimal_str", s |-> s] : s \in Strings}

\* a.checked_sub(&b), for Rationals a and b.
SubCalls(checks) ==
    {[fn |-> "checked_sub", a |-> a, b |-> b] :
        a \in RationalValues(checks), b \in RationalValues(checks)}

\* Interval::new(min, max), for Rationals min and max.
IntervalCalls(checks) ==
    {[fn |-> "Interval_new", min |-> a, max |-> b] :
        a \in RationalValues(checks), b \in RationalValues(checks)}

\* The call to make is drawn at the start; the book is new and stays so.
InitRational ==
    /\ orders_by_vtl = EmptyBook.vtl
    /\ orders_by_id = EmptyBook.id
    /\ latest = [id \in AllIds |-> NoneVal]
    /\ aborted = FALSE
    /\ last = [op |-> "new"]
    /\ overflow_checks \in BOOLEAN
    /\ call \in NewCalls \cup NewScaledCalls \cup CmpCalls(overflow_checks)
                 \cup SubCalls(overflow_checks) \cup ParseCalls
                 \cup IntervalCalls(overflow_checks)
    /\ out = NoOut

CallNew ==
    /\ out = NoOut
    /\ call.fn = "new"
    /\ out' = Rational_new(call.num, call.den, overflow_checks)
    /\ UNCHANGED <<bookVars, overflow_checks, call>>

CallNewScaled ==
    /\ out = NoOut
    /\ call.fn = "new_scaled"
    /\ out' = [tag |-> "Pair",
               a |-> Rational_new(call.num, call.den, overflow_checks),
               b |-> Rational_new(call.k * call.num, call.k * call.den,
                                  overflow_checks)]
    /\ UNCHANGED <<bookVars, overflow_checks, call>>

\* a.partial_cmp(&b), a.cmp(&b), a == b
CallCmp ==
    /\ out = NoOut
    /\ call.fn = "cmp"
    /\ out' = [tag |-> "Cmp",
               partial_cmp |-> Rational_partial_cmp(call.a, call.b),
               cmp |-> Rational_cmp(call.a, call.b),
               eq |-> Rational_eq(call.a, call.b)]
    /\ UNCHANGED <<bookVars, overflow_checks, call>>

\* a.checked_sub(&b)
CallSub ==
    /\ out = NoOut
    /\ call.fn = "checked_sub"
    /\ out' = checked_sub(call.a, call.b, overflow_checks)
    /\ UNCHANGED <<bookVars, overflow_checks, call>>

\* Rational::from_decimal_str(s)
CallFromDecimalStr ==
    /\ out = NoOut
    /\ call.fn = "from_decimal_str"
    /\ out' = from_decimal_str(call.s, overflow_checks)
    /\ UNCHANGED <<bookVars, overflow_checks, call>>

\* Interval::new(min, max)
CallIntervalNew ==
    /\ out = NoOut
    /\ call.fn = "Interval_new"
    /\ out' = Interval_new(call.min, call.max)
    /\ UNCHANGED <<bookVars, overflow_checks, call>>

NextRational ==
    \/ CallNew \/ CallNewScaled \/ CallCmp \/ CallSub \/ CallFromDecimalStr
    \/ CallIntervalNew

SpecRational == InitRational /\ [][NextRational]_vars

-----------------------------------------------------------------------------
(* Mathematical notions the properties are stated in.                      *)

\* Order of two fractions with positive denominators, over the unbounded integers.
RatLt(a, b) == a.num * b.den < b.num * a.den
RatLe(a, b) == a.num * b.den <= b.num * a.den
RatEq(a, b) == a.num * b.den = b.num * a.den

\* max(A.min, B.min) <= min(A.max, B.max)
Overlaps(A, B) ==
    /\ RatLe(A.min, A.max) /\ RatLe(A.min, B.max)
    /\ RatLe(B.min, A.max) /\ RatLe(B.min, B.max)

\* o1 sorts at or before o2 under the key (vtl_range.min, vtl_range.max, order_id).
KeyLe(o1, o2) ==
    \/ RatLt(o1.vtl_range.min, o2.vtl_range.min)
    \/ /\ RatEq(o1.vtl_range.min, o2.vtl_range.min)
       /\ \/ RatLt(o1.vtl_range.max, o2.vtl_range.max)
          \/ /\ RatEq(o1.vtl_range.max, o2.vtl_range.max)
             /\ o1.order_id <= o2.order_id

RECURSIVE MathGcd(_, _)
MathGcd(a, b) == IF b = 0 THEN a ELSE MathGcd(b, a % b)

Matchable(o, cand) == o.status = "OPEN" /\ Overlaps(o.vtl_range, cand.vtl_range)

\* The first entry of vec at a 0-based position >= from that cand can match.
FirstMatchFrom(vec, cand, from) ==
    LET hits == {i \in from..(Len(vec) - 1) : Matchable(vec[i + 1], cand)}
    IN  IF hits = {} THEN NoMatch
        ELSE LET i == CHOOSE x \in hits : \A y \in hits : x <= y
             IN  Match(i, vec[i + 1])

\* The number of entries whose vtl_range.min is <= m.
CountMinLe(vec, m) == Cardinality({i \in 1..Len(vec) : RatLe(vec[i].vtl_range.min, m)})

\* The orders iter_orders_by_vtl and iter_orders_by_id yield.
VtlSet ==
    LET it == iter_orders_by_vtl(orders_by_vtl) IN {it[i] : i \in 1..Len(it)}
IdSet ==
    LET it == iter_orders_by_id(orders_by_id) IN {it[i] : i \in 1..Len(it)}

-----------------------------------------------------------------------------
(* Properties.                                                             *)

\* C1: in every reachable state the range index orders_by_vtl is non-decreasing
\* under the key (vtl_range.min, vtl_range.max, order_id).
C1_RangeIndexSorted ==
    \A i \in 1..(Len(orders_by_vtl) - 1) :
        KeyLe(orders_by_vtl[i], orders_by_vtl[i + 1])

\* C1 witness: add_order has filled the book to capacity, placing its order before
\* the end of the range index.
C1_Witness ==
    /\ last.op = "add_order" /\ last.ret = "ok"
    /\ Len(orders_by_vtl) = MAX_KEYS
    /\ orders_by_vtl[MAX_KEYS] # last.order
    /\ \E i \in 1..(MAX_KEYS - 1) : orders_by_vtl[i] = last.order

\* C2 (as claimed): the range index and the identifier index hold exactly the same
\* set of orders in every reachable state.
C2_IndicesHoldSameOrders == VtlSet = IdSet

\* C3 (as claimed): match_lend returns the first OPEN order of the whole range
\* index whose range overlaps the lend order's, and no match only when there is none.
C3_MatchLendFirstOpenOverlap ==
    last.op = "match_lend" =>
        last.ret = FirstMatchFrom(orders_by_vtl, last.order, 0)

C4_WitnessEmpty ==
    last.op = "match_lend" /\ orders_by_vtl = <<>> /\ last.ret = NoMatch

C5_WitnessNoScan ==
    /\ last.op = "match_borrow" /\ last.ret = NoMatch
    /\ FirstMatchFrom(orders_by_vtl, last.order, 0) # NoMatch

C7_AddStep ==
    \A o \in UserOrders :
        add_order(o) =>
            IF Len(orders_by_vtl) = MAX_KEYS
            THEN /\ aborted'
                 /\ orders_by_vtl' = orders_by_vtl
                 /\ orders_by_id' = orders_by_id
            ELSE /\ ~aborted'
                 /\ Len(orders_by_vtl') = Len(orders_by_vtl) + 1
                 /\ \E i \in 1..Len(orders_by_vtl') : orders_by_vtl'[i] = o
                 /\ \E i \in 1..Len(orders_by_id') : orders_by_id'[i] = <<o.order_id, o>>

C7_AddAbortsOrStores == [][C7_AddStep]_vars

\* C7 witness: add_order was called on a book holding MAX_KEYS orders, whose
\* identifier index holds MAX_KEYS entries too, and aborted.
C7_Witness ==
    /\ last.op = "add_order" /\ last.ret = "panic" /\ aborted
    /\ Len(orders_by_vtl) = MAX_KEYS
    /\ Len(orders_by_id) = MAX_KEYS

\* The entries of an identifier index, as a set of <<key, order>> pairs.
Entries(map) == {map[i] : i \in 1..Len(map)}

\* C8: remove_order(id) returns the entry of id and removes it from the identifier
\* index, leaving the range index and every other entry as they were; for an absent
\* id it returns nothing and leaves both indices as they were.
C8_RemoveStep ==
    \A id \in ProbeIds :
        remove_order(id) =>
            LET hit == {e \in Entries(orders_by_id) : e[1] = id}
            IN  /\ orders_by_vtl' = orders_by_vtl
                /\ Entries(orders_by_id') = Entries(orders_by_id) \ hit
                /\ Len(orders_by_id') = Len(orders_by_id) - Cardinality(hit)
                /\ IF hit = {}
                   THEN last'.ret = NoneVal /\ orders_by_id' = orders_by_id
                   ELSE \E e \in hit : last'.ret = Some(e[2])

C8_RemoveTouchesOnlyItsEntry == [][C8_RemoveStep]_vars

\* C8 witness: remove_order returned an order from the middle of a full identifier
\* index; the range index still holds MAX_KEYS orders.
C8_Witness ==
    /\ last.op = "remove_order" /\ last.ret.some
    /\ Len(orders_by_id) = MAX_KEYS - 1
    /\ Len(orders_by_vtl) = MAX_KEYS

\* C9: get_order_by_id(id) returns the order of the most recent add_order with that
\* id, unless remove_order(id) came after it, and then nothing; the identifier index
\* has one entry per such id, so a duplicate-id add does not change their number.
C9_LookupReturnsLatest ==
    /\ \A id \in AllIds : get_order_by_id(orders_by_id, id) = latest[id]
    /\ Len(orders_by_id) = Cardinality({id \in AllIds : latest[id].some})
    /\ last.op = "get_order_by_id" => last.ret = latest[last.id]

\* C9 witness: a lookup returned the order of a second add_order with the same id;
\* the range index still holds the first one.
C9_Witness ==
    /\ last.op = "get_order_by_id" /\ last.ret.some
    /\ \E o \in VtlSet : o.order_id = last.id /\ o # last.ret.v
    /\ last.ret.v \in VtlSet

\* C10 (as claimed): for every n and every d # 0 of the integer width,
\* Rational::new(n, d) yields a fraction with denominator > 0 and
\* gcd(|numerator|, denominator) = 1, and equals Rational::new(k*n, k*d).
C10_NewReducesAndScales ==
    /\ (call.fn = "new" /\ call.den # 0 /\ out # NoOut) =>
         /\ out.tag = "Ok"
         /\ out.v.den > 0
         /\ MathGcd(Abs(out.v.num), out.v.den) = 1
    /\ (call.fn = "new_scaled" /\ call.den # 0 /\ out # NoOut) =>
         /\ out.a.tag = "Ok"
         /\ out.a = out.b

\* C11 (as claimed): when neither cross product overflows, the comparison yields
\* exactly the ordering of the cross products, and yields Equal exactly when the
\* two Rationals are equal field by field; when one overflows it yields no ordering
\* (partial_cmp) and aborts (cmp).
C11_CompareTotalOrOverflow ==
    (call.fn = "cmp" /\ out # NoOut) =>
        LET l == call.a.num * call.b.den
            r == call.b.num * call.a.den
        IN  IF InRange(l) /\ InRange(r)
            THEN /\ out.partial_cmp = (IF l < r THEN "Less"
                                       ELSE IF l = r THEN "Equal" ELSE "Greater")
                 /\ out.cmp = out.partial_cmp
                 /\ (out.partial_cmp = "Equal") <=> out.eq
            ELSE /\ out.partial_cmp = "None"
                 /\ out.cmp = "Panic"

\* C12 (as claimed): checked_sub(a, b) returns an Overflow error or the reduced
\* Rational equal to a - b; it never aborts and never returns another value.
C12_CheckedSubExactOrOverflow ==
    (call.fn = "checked_sub" /\ out # NoOut) =>
        \/ /\ out.tag = "Err"
           /\ out.msg \in {"Overflow computing numerator",
                           "Overflow computing denominator"}
        \/ /\ out.tag = "Ok"
           /\ out.v.den > 0
           /\ MathGcd(Abs(out.v.num), out.v.den) = 1
           /\ out.v.num * (call.a.den * call.b.den)
                = (call.a.num * call.b.den - call.b.num * call.a.den) * out.v.den

\* The parts of a string of the form [-]digits[.digits].
StrNegative(s) == s # <<>> /\ Head(s) = "-"

StrUnsigned(s) == IF StrNegative(s) THEN Tail(s) ELSE s

StrIntDigits(s) ==
    LET u == StrUnsigned(s)
        dot == find(u, ".")
    IN  IF dot.some THEN SubSeq(u, 1, dot.v) ELSE u

StrFracDigits(s) ==
    LET u == StrUnsigned(s)
        dot == find(u, ".")
    IN  IF dot.some THEN SubSeq(u, dot.v + 2, Len(u)) ELSE <<>>

AllDigits(d) == d # <<>> /\ \A i \in 1..Len(d) : d[i] \in Digits

IsDecimalForm(s) ==
    /\ AllDigits(StrIntDigits(s))
    /\ find(StrUnsigned(s), ".").some => AllDigits(StrFracDigits(s))

RECURSIVE DigitsValue(_)
DigitsValue(d) ==
    IF d = <<>> THEN 0
    ELSE 10 * DigitsValue(SubSeq(d, 1, Len(d) - 1)) + DigitVal(d[Len(d)])

\* sign * (|int_part| * 10^len(frac) + frac_part), sign negative exactly when the
\* string starts with '-'.
StrNumerator(s) ==
    LET n == DigitsValue(StrIntDigits(s)) * Pow10(Len(StrFracDigits(s)))
                + DigitsValue(StrFracDigits(s))
    IN  IF StrNegative(s) THEN -n ELSE n

StrDenominator(s) == Pow10(Len(StrFracDigits(s)))

\* C13 (as claimed): for a string of the form [-]digits[.digits] whose values fit
\* the integer width, from_decimal_str returns the Rational equal to
\* sign * (|int| * 10^len(frac) + frac) / 10^len(frac), negative exactly when the
\* string starts with '-'.
C13_FromDecimalStrValue ==
    (/\ call.fn = "from_decimal_str" /\ out # NoOut
     /\ IsDecimalForm(call.s)
     /\ InRange(StrNumerator(call.s)) /\ InRange(StrDenominator(call.s)))
        => /\ out.tag = "Ok"
           /\ out.v.den > 0
           /\ out.v.num * StrDenominator(call.s) = StrNumerator(call.s) * out.v.den

\* C14 (as claimed): for Rationals min and max (denominators positive),
\* Interval::new(min, max) fails exactly when min > max and otherwise succeeds with
\* min and max stored unchanged; a pair with min <= max is never rejected.
C14_IntervalNewRejectsOnlyInverted ==
    (/\ call.fn = "Interval_new" /\ out # NoOut
     /\ call.min.den > 0 /\ call.max.den > 0)
        => IF RatLt(call.max, call.min)
           THEN out.tag = "Err"
           ELSE out = Ok(Interval(call.min, call.max))

\* C15 (as claimed): an order removed by remove_order and not added again is never
\* observed again: iter_orders_by_vtl does not yield an order with its id, and
\* match_lend / match_borrow do not return one.
C15_RemovedNeverObserved ==
    /\ \A o \in VtlSet : latest[o.order_id].some
    /\ (last.op \in {"match_lend", "match_borrow"} /\ last.ret.tag = "Some") =>
            latest[last.ret.order.order_id].some

\* C16 (as claimed): whenever the range index holds at least one OPEN order whose
\* range overlaps the borrow order's, match_borrow returns an order.
C16_MatchBorrowFindsOverlap ==
    (/\ last.op = "match_borrow"
     /\ \E o \in VtlSet : Matchable(o, last.order))
        => last.ret.tag = "Some"

\* Order::new gives status OPEN and remaining_amount = amount.
C17_NewOrderIsOpen ==
    \A id \in AllIds, amount \in {0, 1, 100}, r \in CandRanges :
        LET o == Order_new(id, "LEND", "DOT", 0, amount, r)
        IN  o.status = "OPEN" /\ o.remaining_amount = amount /\ o.amount = amount

\* Every order of vec is still in vec2, unaltered, at its place or one further on.
StoredKept(vec, vec2) ==
    \A i \in 1..Len(vec) : \E j \in {i, i + 1} : j <= Len(vec2) /\ vec2[j] = vec[i]

\* Every action records the call it makes in last, so last' names the operation
\* of the step.
C17_Step ==
    /\ C17_NewOrderIsOpen
    /\ last'.op \in {"match_lend", "match_borrow", "get_order_by_id",
                     "iter_orders_by_vtl", "iter_orders_by_id"} =>
            orders_by_vtl' = orders_by_vtl /\ orders_by_id' = orders_by_id
    /\ last'.op = "add_order" =>
            /\ StoredKept(orders_by_vtl, orders_by_vtl')
            /\ \A e \in Entries(orders_by_id) :
                    e[1] # last'.order.order_id => e \in Entries(orders_by_id')
    /\ last'.op = "remove_order" =>
            /\ orders_by_vtl' = orders_by_vtl
            /\ \A e \in Entries(orders_by_id) :
                    e[1] # last'.id => e \in Entries(orders_by_id')

\* C17: match_lend, match_borrow, get_order_by_id and the iterators leave both
\* indices unchanged; add_order and remove_order leave every other stored order
\* as it was; a newly constructed Order has status OPEN and remaining_amount = amount.
C17_StoredOrdersUnchanged == [][C17_Step]_vars

\* C17 witness: add_order stored an order in front of orders already in a book that
\* is now full, and those orders are all still there.
C17_Witness ==
    /\ last.op = "add_order" /\ last.ret = "ok"
    /\ Len(orders_by_vtl) = MAX_KEYS
    /\ orders_by_vtl[MAX_KEYS] # last.order
    /\ \A i \in 1..(MAX_KEYS - 1) : Filler(i) \in VtlSet

\* C18: in every reachable state len(orders_by_id) <= len(orders_by_vtl) <= MAX_KEYS,
\* which is below the capacity MAX_ORDERS of the range index, and every order held in
\* the identifier index is also in the range index, field for field.
C18_IdIndexWithinRangeIndex ==
    /\ Len(orders_by_id) <= Len(orders_by_vtl)
    /\ Len(orders_by_vtl) <= MAX_KEYS
    /\ MAX_KEYS < MAX_ORDERS
    /\ IdSet \subseteq VtlSet

\* C18 witness: after two removals from a full book the identifier index is shorter
\* than the range index, which still holds MAX_KEYS orders.
C18_Witness ==
    /\ last.op = "remove_order"
    /\ Len(orders_by_vtl) = MAX_KEYS
    /\ Len(orders_by_id) = MAX_KEYS - 2
    /\ IdSet \subseteq VtlSet

\* Each successful add_order lengthens the range index by one, so its length is the
\* number of add_order calls that have succeeded on the book.
C19_Step ==
    /\ Len(orders_by_vtl') >= Len(orders_by_vtl)
    /\ \A o \in UserOrders :
            (Len(orders_by_vtl) = MAX_KEYS /\ add_order(o)) =>
                /\ aborted'
                /\ last'.ret = "panic"
                /\ orders_by_vtl' = orders_by_vtl
                /\ orders_by_id' = orders_by_id

\* C19: the length of the range index never decreases, and once MAX_KEYS add_order
\* calls have succeeded every later add_order aborts with "order book full",
\* whatever remove_order has taken out of the identifier index in between.
C19_CapacityNeverReclaimed == [][C19_Step]_vars

\* C19 witness: add_order aborted although removals had left room in the
\* identifier index; the range index holds MAX_KEYS orders.
C19_Witness ==
    /\ last.op = "add_order" /\ last.ret = "panic" /\ aborted
    /\ Len(orders_by_vtl) = MAX_KEYS
    /\ Len(orders_by_id) < MAX_KEYS - 1

\* The order_ids of the range index are pairwise distinct.
DistinctIds ==
    \A i, j \in 1..Len(orders_by_vtl) :
        i # j => orders_by_vtl[i].order_id # orders_by_vtl[j].order_id

\* The one sequence that lists the set S by (vtl_range.min, vtl_range.max, order_id):
\* each order stands at the place given by the number of orders at or before it.
Rank(o, S) == Cardinality({p \in S : KeyLe(p, o)})

CanonicalSeq(S) == [i \in 1..Cardinality(S) |-> CHOOSE o \in S : Rank(o, S) = i]

====
